---- MODULE Spec2Model ----
(***************************************************************************)
(* Model of scd_qa_core.py: the two SCD prompt builders, the Databricks    *)
(* model-serving call and the Streamlit script run_app.                    *)
(*                                                                         *)
(* A Python str is a sequence of tokens.  A token is an opaque run of      *)
(* characters: the template's literal text is cut at line ends and, in the *)
(* scenario lists, at word boundaries; a form field is a sequence of       *)
(* one-character tokens.  Non-ASCII characters of the source are written   *)
(* by code point: "U+2022" is the bullet, "U+2013" the en dash.            *)
(***************************************************************************)
EXTENDS Naturals, Sequences, FiniteSets

VARIABLES
    scd_type,      \* run_app: value of the radio widget
    form,          \* run_app: the nine field locals after lines 147-166
    edits,         \* number of field edits made so far
    triggers,      \* number of clicks on the Generate button so far
    pc,            \* position of the running script, "idle" when it has finished
    prompt,        \* run_app: the local prompt (lines 175-184)
    calls,         \* number of invocations of call_databricks_llm so far
    requests,      \* the queries handed to w.serving_endpoints.query, in order
    response,      \* call_databricks_llm: the local response
    result,        \* run_app: the local result
    err,           \* the exception in flight or handled in this run
    raised_by,     \* the call that raised err
    display        \* the result elements rendered by this run, in order

vars == <<scd_type, form, edits, triggers, pc, prompt, calls, requests,
          response, result, err, raised_by, display>>

----------------------------------------------------------------------------
(* Bounds *)

MaxLen == 1         \* longest field value handed to a prompt builder
MaxVaried == 2      \* fields of a builder input that differ from the widget default
MaxEdits == 1       \* field edits in a session of run_app
MaxTriggers == 2    \* clicks on the Generate button in a session of run_app

----------------------------------------------------------------------------
(* Strings *)

Chars == {"a", "b"}

Strings == UNION {[1..n -> Chars] : n \in 0..MaxLen}

NL == "\n"

----------------------------------------------------------------------------
(* Configuration *)

MODEL_ENDPOINT_NAME == "deepseek-scd-qa"

----------------------------------------------------------------------------
(* Prompt builders *)

Bullet == <<"  ", "U+2022", " ">>

\* lines 66-72
Type1Scenarios ==
       Bullet \o <<"Initial", " ", "load", NL>>
    \o Bullet \o <<"Incremental", " ", "load", NL>>
    \o Bullet \o <<"Updates", NL>>
    \o Bullet \o <<"No-change", " ", "rows", NL>>
    \o Bullet \o <<"Duplicate", " ", "keys", NL>>
    \o Bullet \o <<"Nulls", NL>>
    \o Bullet \o <<"Data", " ", "type", " ", "issues", NL>>

\* Type2Scenarios without the late-arriving data line
Type2Scenarios_NoLateArriving ==
       Bullet \o <<"Initial", " ", "load", NL>>
    \o Bullet \o <<"First", " ", "insert", NL>>
    \o Bullet \o <<"Attribute", " ", "change", " ", "->", " ", "close", " ",
                   "old", " ", "+", " ", "open", " ", "new", NL>>
    \o Bullet \o <<"Multiple", " ", "historical", " ", "changes", NL>>
    \o Bullet \o <<"Overlapping", " ", "ranges", NL>>
    \o Bullet \o <<"Current", " ", "flag", " ", "issues", NL>>
    \o Bullet \o <<"Duplicate", " ", "keys", NL>>
    \o Bullet \o <<"Invalid", " ", "effective", " ", "dates", NL>>

\* lines 114-122
Type2Scenarios ==
       Bullet \o <<"Initial", " ", "load", NL>>
    \o Bullet \o <<"First", " ", "insert", NL>>
    \o Bullet \o <<"Attribute", " ", "change", " ", "->", " ", "close", " ",
                   "old", " ", "+", " ", "open", " ", "new", NL>>
    \o Bullet \o <<"Multiple", " ", "historical", " ", "changes", NL>>
    \o Bullet \o <<"Late-arriving", " ", "data", NL>>
    \o Bullet \o <<"Overlapping", " ", "ranges", NL>>
    \o Bullet \o <<"Current", " ", "flag", " ", "issues", NL>>
    \o Bullet \o <<"Duplicate", " ", "keys", NL>>
    \o Bullet \o <<"Invalid", " ", "effective", " ", "dates", NL>>

OutputFormat ==
    <<NL, "Output format (markdown table):", NL, NL,
      "| Test Case ID | Scenario | Preconditions | Input Data Setup | Steps | Expected Result |",
      NL>>

\* Type1Metadata with the business keys repeated in the attribute line
Type1Metadata_KeysTwice(source_table, target_table, business_keys, attribute_columns) ==
       <<"Source table: ">> \o source_table \o <<NL>>
    \o <<"Target table: ">> \o target_table \o <<NL>>
    \o <<"Business key columns: ">> \o business_keys \o <<NL>>
    \o <<"Attribute columns (overwritten on change): ">> \o business_keys \o <<NL>>

\* lines 53-56: the restated metadata of the Type 1 template
Type1Metadata(source_table, target_table, business_keys, attribute_columns) ==
       <<"Source table: ">> \o source_table \o <<NL>>
    \o <<"Target table: ">> \o target_table \o <<NL>>
    \o <<"Business key columns: ">> \o business_keys \o <<NL>>
    \o <<"Attribute columns (overwritten on change): ">> \o attribute_columns \o <<NL>>

build_scd_type1_prompt(source_table, target_table, business_keys, attribute_columns, additional_rules) ==
       <<NL, "You are a senior Data QA Engineer.", NL, NL,
         "Generate detailed QA test cases to validate a Slowly Changing Dimension Type 1 (SCD1)",
         NL, "load between the following tables.", NL, NL>>
    \o Type1Metadata(source_table, target_table, business_keys, attribute_columns)
    \o <<NL, "Additional rules:", NL>> \o additional_rules \o <<NL>>
    \o <<NL, "Requirements:", NL,
         "- Assume SCD1 implemented in PySpark + Delta on Databricks.", NL,
         "- Generate 10U+201315 test cases.", NL,
         "- Include positive + negative scenarios.", NL,
         "- Include:", NL>>
    \o Type1Scenarios
    \o OutputFormat

\* lines 96-99: the restated metadata of the Type 2 template
Type2Metadata(source_table, target_table, business_keys, attribute_columns) ==
       <<"Source: ">> \o source_table \o <<NL>>
    \o <<"Target: ">> \o target_table \o <<NL>>
    \o <<"Business Keys: ">> \o business_keys \o <<NL>>
    \o <<"Tracked Columns: ">> \o attribute_columns \o <<NL>>

\* Scd2Metadata with the effective-from column in the effective-to line
Scd2Metadata_FromTwice(eff_from_col, eff_to_col, current_flag_col, version_col) ==
       <<"SCD2 Metadata:", NL>>
    \o <<"- Effective From: ">> \o eff_from_col \o <<NL>>
    \o <<"- Effective To: ">> \o eff_from_col \o <<NL>>
    \o <<"- Current Flag: ">> \o current_flag_col \o <<NL>>
    \o <<"- Version Column: ">> \o version_col \o <<NL>>

\* lines 101-105: the SCD2 metadata column names
Scd2Metadata(eff_from_col, eff_to_col, current_flag_col, version_col) ==
       <<"SCD2 Metadata:", NL>>
    \o <<"- Effective From: ">> \o eff_from_col \o <<NL>>
    \o <<"- Effective To: ">> \o eff_to_col \o <<NL>>
    \o <<"- Current Flag: ">> \o current_flag_col \o <<NL>>
    \o <<"- Version Column: ">> \o version_col \o <<NL>>

build_scd_type2_prompt(source_table, target_table, business_keys, attribute_columns, eff_from_col, eff_to_col, current_flag_col, version_col, additional_rules) ==
       <<NL, "You are a senior Data QA Engineer.", NL, NL,
         "Generate detailed QA test cases to validate an SCD Type 2 load.", NL, NL>>
    \o Type2Metadata(source_table, target_table, business_keys, attribute_columns)
    \o <<NL>>
    \o Scd2Metadata(eff_from_col, eff_to_col, current_flag_col, version_col)
    \o <<NL, "Additional Rules:", NL>> \o additional_rules \o <<NL>>
    \o <<NL, "Requirements:", NL,
         "- Assume PySpark + Delta Lake on Databricks", NL,
         "- Generate 12U+201318 cases", NL,
         "- Cover:", NL>>
    \o Type2Scenarios
    \o OutputFormat

----------------------------------------------------------------------------
(* Inference client *)

\* The exceptions the Databricks client raises: their class and their
\* description str(e)
Errors ==
    { [class |-> "ConnectionError", desc |-> <<"connection refused">>],
      [class |-> "DatabricksError", desc |-> <<>>] }

\* The classes derived from Exception
ExceptionClasses == {"ConnectionError", "DatabricksError", "StreamlitAPIException"}

\* The objects w.serving_endpoints.query returns: with or without the
\* attribute output_text
Responses ==
    { [type |-> "ChatResponse", has_output_text |-> TRUE,
       output_text |-> <<"| TC-01 | Initial load |">>, payload |-> <<"output_text=...">>],
      [type |-> "ChatResponse", has_output_text |-> TRUE,
       output_text |-> <<>>, payload |-> <<"output_text=''">>],
      [type |-> "QueryEndpointResponse", has_output_text |-> FALSE,
       output_text |-> <<>>, payload |-> <<"choices=[...]">>],
      [type |-> "NoneType", has_output_text |-> FALSE,
       output_text |-> <<>>, payload |-> <<>>] }

NoResponse == [type |-> "unset"]
NoError == [class |-> "unset", desc |-> <<>>]

\* str(response), line 39
Str(r) ==
    IF r.type = "NoneType"
    THEN <<"None">>
    ELSE <<r.type, "(">> \o r.payload \o <<")">>

\* ExtractText without the fallback: a missing attribute reads as ""
ExtractText_NoFallback(r) == r.output_text

\* lines 36-39: response.output_text, or str(response) when reading it fails
ExtractText(r) == IF r.has_output_text THEN r.output_text ELSE Str(r)

\* Query with a system message in front of the prompt
Query_SystemFirst(p) ==
    [name |-> MODEL_ENDPOINT_NAME,
     inputs |-> <<[role |-> "system", content |-> <<"You are a senior Data QA Engineer.">>],
                  [role |-> "user", content |-> p]>>]

\* lines 30-33: the arguments of w.serving_endpoints.query
Query(p) ==
    [name |-> MODEL_ENDPOINT_NAME,
     inputs |-> <<[role |-> "user", content |-> p]>>]

----------------------------------------------------------------------------
(* run_app *)

Type1 == "SCD Type 1"
Type2 == "SCD Type 2"
ScdTypes == {Type1, Type2}

CommonFields == {"source_table", "target_table", "business_keys", "attribute_columns", "additional_rules"}
Scd2Fields == {"eff_from_col", "eff_to_col", "current_flag_col", "version_col"}
Fields == CommonFields \cup Scd2Fields

\* lines 147-154 and 162-166: the value a widget has when first rendered
WidgetDefault ==
    [source_table |-> <<"src_customer_dim">>,
     target_table |-> <<"dim_customer">>,
     business_keys |-> <<"customer_id">>,
     attribute_columns |-> <<"name,status,type">>,
     additional_rules |-> <<>>,
     eff_from_col |-> <<"eff_from_dt">>,
     eff_to_col |-> <<"eff_to_dt">>,
     current_flag_col |-> <<"is_current">>,
     version_col |-> <<"version_num">>]

\* lines 156-166: the four SCD2 locals are "" unless Type 2 is selected, and
\* are then read from widgets that are rendered for the first time
Scd2Locals(t, f) ==
    [k \in Fields |->
        IF k \in Scd2Fields
        THEN (IF t = Type2 THEN WidgetDefault[k] ELSE <<>>)
        ELSE f[k]]

\* BuildPrompt that takes the Type 2 template whatever the radio value
BuildPrompt_AlwaysType2(t, f) ==
    build_scd_type2_prompt(f.source_table, f.target_table, f.business_keys,
                           f.attribute_columns, f.eff_from_col, f.eff_to_col,
                           f.current_flag_col, f.version_col, f.additional_rules)

\* lines 174-184: the template chosen by the radio value
BuildPrompt(t, f) ==
    IF t = Type1
    THEN build_scd_type1_prompt(f.source_table, f.target_table, f.business_keys,
                                f.attribute_columns, f.additional_rules)
    ELSE build_scd_type2_prompt(f.source_table, f.target_table, f.business_keys,
                                f.attribute_columns, f.eff_from_col, f.eff_to_col,
                                f.current_flag_col, f.version_col, f.additional_rules)

\* line 188
SuccessElement == [kind |-> "success", body |-> <<"Generated!">>]
\* line 189
CodeElement(r) == [kind |-> "code", body |-> r]
\* ErrorElement with a fixed text in place of the exception's description
ErrorElement_Generic(e) == [kind |-> "error", body |-> <<"Error: ", "request failed">>]

\* line 192
ErrorElement(e) == [kind |-> "error", body |-> <<"Error: ">> \o e.desc]

\* the exceptions a rendering call of the try block raises
DisplayErrors == {[class |-> "StreamlitAPIException", desc |-> <<"cannot render">>]}

\* line 191: except Exception
Catches(e) == e.class \in ExceptionClasses

\* the texts the operator types into a widget: nothing, or one character
Typed == {<<>>} \cup {<<c>> : c \in Chars}

Init ==
    /\ scd_type = Type1
    /\ form = Scd2Locals(Type1, WidgetDefault)
    /\ edits = 0
    /\ triggers = 0
    /\ pc = "idle"
    /\ prompt = <<>>
    /\ calls = 0
    /\ requests = <<>>
    /\ response = NoResponse
    /\ result = <<>>
    /\ err = NoError
    /\ raised_by = "none"
    /\ display = <<>>

\* a script run with generate = False: lines 135-169 and 194, nothing of the
\* previous run's output is rendered again
RerunWithoutGenerate ==
    /\ pc' = "idle"
    /\ prompt' = <<>>
    /\ response' = NoResponse
    /\ result' = <<>>
    /\ err' = NoError
    /\ raised_by' = "none"
    /\ display' = <<>>
    /\ UNCHANGED <<triggers, calls, requests>>

\* the operator types v into the text widget k; the script runs again
EditField(k, v) ==
    /\ pc = "idle"
    /\ edits < MaxEdits
    /\ k \in Scd2Fields => scd_type = Type2
    /\ v # form[k]
    /\ form' = [form EXCEPT ![k] = v]
    /\ edits' = edits + 1
    /\ UNCHANGED scd_type
    /\ RerunWithoutGenerate

\* the operator picks the other radio option; the script runs again
SelectType(t) ==
    /\ pc = "idle"
    /\ t # scd_type
    /\ scd_type' = t
    /\ form' = Scd2Locals(t, form)
    /\ UNCHANGED edits
    /\ RerunWithoutGenerate

\* the operator clicks the button: lines 169-184
ClickGenerate ==
    /\ pc = "idle"
    /\ triggers < MaxTriggers
    /\ triggers' = triggers + 1
    /\ prompt' = BuildPrompt(scd_type, form)
    /\ pc' = "call"
    /\ response' = NoResponse
    /\ result' = <<>>
    /\ err' = NoError
    /\ raised_by' = "none"
    /\ display' = <<>>
    /\ UNCHANGED <<scd_type, form, edits, calls, requests>>

\* line 187, call_databricks_llm: WorkspaceClient() raises (line 28)
CallClientRaises(e) ==
    /\ pc = "call"
    /\ calls' = calls + 1
    /\ err' = e
    /\ raised_by' = "WorkspaceClient"
    /\ pc' = "except"
    /\ UNCHANGED <<scd_type, form, edits, triggers, prompt, requests, response, result, display>>

\* CallQueryRaises that asks a second time before it gives up
CallQueryRaises_Retry(e) ==
    /\ pc = "call"
    /\ calls' = calls + 1
    /\ requests' = Append(Append(requests, Query(prompt)), Query(prompt))
    /\ err' = e
    /\ raised_by' = "query"
    /\ pc' = "except"
    /\ UNCHANGED <<scd_type, form, edits, triggers, prompt, response, result, display>>

\* line 187, call_databricks_llm: the query raises (lines 30-33)
CallQueryRaises(e) ==
    /\ pc = "call"
    /\ calls' = calls + 1
    /\ requests' = Append(requests, Query(prompt))
    /\ err' = e
    /\ raised_by' = "query"
    /\ pc' = "except"
    /\ UNCHANGED <<scd_type, form, edits, triggers, prompt, response, result, display>>

\* line 187, call_databricks_llm: the query returns r (lines 30-39)
CallReturns(r) ==
    /\ pc = "call"
    /\ calls' = calls + 1
    /\ requests' = Append(requests, Query(prompt))
    /\ response' = r
    /\ result' = ExtractText(r)
    /\ pc' = "success"
    /\ UNCHANGED <<scd_type, form, edits, triggers, prompt, err, raised_by, display>>

\* line 188
ShowSuccess ==
    /\ pc = "success"
    /\ display' = Append(display, SuccessElement)
    /\ pc' = "code"
    /\ UNCHANGED <<scd_type, form, edits, triggers, prompt, calls, requests, response, result, err, raised_by>>

\* line 188 raises
ShowSuccessRaises(e) ==
    /\ pc = "success"
    /\ err' = e
    /\ raised_by' = "st.success"
    /\ pc' = "except"
    /\ UNCHANGED <<scd_type, form, edits, triggers, prompt, calls, requests, response, result, display>>

\* ShowCode with the error display after it, as under finally in place of except
ShowCode_ThenError ==
    /\ pc = "code"
    /\ display' = Append(Append(display, CodeElement(result)), [kind |-> "error", body |-> <<"Error: ">>])
    /\ pc' = "idle"
    /\ UNCHANGED <<scd_type, form, edits, triggers, prompt, calls, requests, response, result, err, raised_by>>

\* lines 189 and 194
ShowCode ==
    /\ pc = "code"
    /\ display' = Append(display, CodeElement(result))
    /\ pc' = "idle"
    /\ UNCHANGED <<scd_type, form, edits, triggers, prompt, calls, requests, response, result, err, raised_by>>

\* line 189 raises
ShowCodeRaises(e) ==
    /\ pc = "code"
    /\ err' = e
    /\ raised_by' = "st.code"
    /\ pc' = "except"
    /\ UNCHANGED <<scd_type, form, edits, triggers, prompt, calls, requests, response, result, display>>

\* lines 191-194: the handler renders the error; an exception it does not
\* catch leaves run_app
ShowError ==
    /\ pc = "except"
    /\ display' = IF Catches(err) THEN Append(display, ErrorElement(err)) ELSE display
    /\ pc' = IF Catches(err) THEN "idle" ELSE "escaped"
    /\ UNCHANGED <<scd_type, form, edits, triggers, prompt, calls, requests, response, result, err, raised_by>>

Next ==
    \/ \E k \in Fields, v \in Typed : EditField(k, v)
    \/ \E t \in ScdTypes : SelectType(t)
    \/ ClickGenerate
    \/ \E e \in Errors : CallClientRaises(e)
    \/ \E e \in Errors : CallQueryRaises(e)
    \/ \E r \in Responses : CallReturns(r)
    \/ ShowSuccess
    \/ \E e \in DisplayErrors : ShowSuccessRaises(e)
    \/ ShowCode
    \/ \E e \in DisplayErrors : ShowCodeRaises(e)
    \/ ShowError

Spec == Init /\ [][Next]_vars

----------------------------------------------------------------------------
(* The prompt builders on their own: any field values, one call *)

BuilderInputs ==
    { [k \in Fields |-> IF k \in DOMAIN vals THEN vals[k] ELSE WidgetDefault[k]] :
        vals \in UNION {[S -> Strings] : S \in {T \in SUBSET Fields : Cardinality(T) <= MaxVaried}} }

BuilderInit ==
    /\ scd_type \in ScdTypes
    /\ form \in BuilderInputs
    /\ edits = 0
    /\ triggers = 0
    /\ pc = "idle"
    /\ prompt = <<>>
    /\ calls = 0
    /\ requests = <<>>
    /\ response = NoResponse
    /\ result = <<>>
    /\ err = NoError
    /\ raised_by = "none"
    /\ display = <<>>

CallBuildType1 ==
    /\ pc = "idle"
    /\ scd_type = Type1
    /\ prompt' = build_scd_type1_prompt(form.source_table, form.target_table, form.business_keys, form.attribute_columns, form.additional_rules)
    /\ pc' = "built"
    /\ UNCHANGED <<scd_type, form, edits, triggers, calls, requests, response, result, err, raised_by, display>>

CallBuildType2 ==
    /\ pc = "idle"
    /\ scd_type = Type2
    /\ prompt' = build_scd_type2_prompt(form.source_table, form.target_table, form.business_keys, form.attribute_columns, form.eff_from_col, form.eff_to_col, form.current_flag_col, form.version_col, form.additional_rules)
    /\ pc' = "built"
    /\ UNCHANGED <<scd_type, form, edits, triggers, calls, requests, response, result, err, raised_by, display>>

BuilderNext == CallBuildType1 \/ CallBuildType2

BuilderSpec == BuilderInit /\ [][BuilderNext]_vars

----------------------------------------------------------------------------
(* Properties *)

\* s occurs in t as a contiguous run (Python: s in t)
Contains(t, s) ==
    \E i \in 0..(Len(t) - Len(s)) : SubSeq(t, i + 1, i + Len(s)) = s

HasKind(k) == \E i \in 1..Len(display) : display[i].kind = k

\* the success notice and the code-formatted result are both on display
FullResponse == HasKind("success") /\ HasKind("code")

ErrorShown == HasKind("error")

\* the run that last finished, or is in progress, was started by the button
Triggered == prompt # <<>>

\* C1: when call_databricks_llm raises (in WorkspaceClient() or in the
\* query), run_app goes to its handler and finishes, the one element on
\* display is an error message whose text contains the description of the
\* exception, and no exception leaves run_app.
C1_CallErrorRendered ==
    raised_by \in {"WorkspaceClient", "query"} =>
        /\ pc \in {"except", "idle"}
        /\ pc = "idle" =>
            /\ Len(display) = 1
            /\ display[1].kind = "error"
            /\ Contains(display[1].body, err.desc)

C1_Witness ==
    /\ pc = "idle"
    /\ raised_by = "query"
    /\ err.desc = <<"connection refused">>
    /\ display = <<[kind |-> "error", body |-> <<"Error: ", "connection refused">>]>>

\* C2: when the response has no output_text, call_databricks_llm returns
\* the non-empty string rendering of the whole response and does not raise;
\* run_app shows that string as the code-formatted result after the success
\* notice, and an error message appears in that run only if one of the two
\* rendering calls itself raised.
C2_FallbackAbsorbed ==
    (response # NoResponse /\ ~response.has_output_text) =>
        /\ result = Str(response)
        /\ Len(result) > 0
        /\ raised_by \in {"none", "st.success", "st.code"}
        /\ pc # "escaped"
        /\ \A i \in 1..Len(display) :
              display[i].kind = "code" => display[i].body = Str(response)
        /\ (pc = "idle" /\ raised_by = "none") =>
              /\ Len(display) = 2
              /\ display[1].kind = "success"
              /\ display[2].kind = "code"

C2_Witness ==
    /\ pc = "idle"
    /\ response.type = "QueryEndpointResponse"
    /\ ~response.has_output_text
    /\ display = <<[kind |-> "success", body |-> <<"Generated!">>],
                   [kind |-> "code", body |-> <<"QueryEndpointResponse", "(", "choices=[...]", ")">>]>>

\* C3: a run started by the button never has the full response (success
\* notice and code-formatted result) and the error message on display
\* together, and when it has finished it shows one of the two, whichever of
\* WorkspaceClient(), the query, st.success or st.code raised.
C3_FullResponseOrError ==
    /\ ~(FullResponse /\ ErrorShown)
    /\ (pc = "idle" /\ Triggered) => (FullResponse \/ ErrorShown)

C3_Witness ==
    /\ pc = "idle"
    /\ raised_by = "st.code"
    /\ HasKind("success")
    /\ ErrorShown
    /\ ~HasKind("code")

\* C4: the string build_scd_type1_prompt returns contains the source table,
\* the target table, the business keys and the attribute columns, each as
\* passed in, for every field value including the empty string.
C4_Type1ContainsFields ==
    (pc = "built" /\ scd_type = Type1) =>
        \A k \in {"source_table", "target_table", "business_keys", "attribute_columns"} :
            Contains(prompt, form[k])

C4_Witness ==
    /\ pc = "built"
    /\ scd_type = Type1
    /\ form.source_table = <<>>
    /\ form.attribute_columns = <<"b">>
    /\ Contains(prompt, <<"Source table: ", NL>>)
    /\ Contains(prompt, <<"Attribute columns (overwritten on change): ", "b", NL>>)

\* C5: the string build_scd_type2_prompt returns contains the source table,
\* the target table, the business keys, the attribute columns and the four
\* metadata column names, each as passed in; the builder accepts empty and
\* equal column names.
C5_Type2ContainsFields ==
    (pc = "built" /\ scd_type = Type2) =>
        \A k \in {"source_table", "target_table", "business_keys", "attribute_columns",
                  "eff_from_col", "eff_to_col", "current_flag_col", "version_col"} :
            Contains(prompt, form[k])

C5_Witness ==
    /\ pc = "built"
    /\ scd_type = Type2
    /\ form.eff_from_col = <<"a">>
    /\ form.eff_to_col = <<"a">>
    /\ Contains(prompt, <<"- Effective From: ", "a", NL, "- Effective To: ", "a", NL>>)

\* str.lower on the words of the scenario lists; other tokens have no
\* upper-case letter that matters to the comparison below
Lower(tok) ==
    CASE tok = "Initial" -> "initial"
      [] tok = "Incremental" -> "incremental"
      [] tok = "Updates" -> "updates"
      [] tok = "No-change" -> "no-change"
      [] tok = "Duplicate" -> "duplicate"
      [] tok = "Nulls" -> "nulls"
      [] tok = "Data" -> "data"
      [] tok = "First" -> "first"
      [] tok = "Attribute" -> "attribute"
      [] tok = "Multiple" -> "multiple"
      [] tok = "Late-arriving" -> "late-arriving"
      [] tok = "Overlapping" -> "overlapping"
      [] tok = "Current" -> "current"
      [] tok = "Invalid" -> "invalid"
      [] OTHER -> tok

LowerSeq(t) == [i \in 1..Len(t) |-> Lower(t[i])]

\* the scenario category names as the specification words them
StatedType1Names ==
    { <<"initial", " ", "load">>, <<"incremental", " ", "load">>, <<"updates">>,
      <<"no-change", " ", "rows">>, <<"duplicate", " ", "keys">>, <<"nulls">>,
      <<"data-type", " ", "issues">> }

StatedType2Names ==
    { <<"initial", " ", "load">>, <<"first", " ", "insert">>,
      <<"attribute", " ", "change">>,
      <<"multiple", " ", "historical", " ", "changes">>,
      <<"late-arriving", " ", "data">>,
      <<"overlapping", " ", "date", " ", "ranges">>,
      <<"current-flag", " ", "inconsistencies">>,
      <<"duplicate", " ", "keys">>,
      <<"invalid", " ", "effective-date", " ", "values">> }

\* the scenario lines as the templates word them
TemplateType1Names ==
    { <<"Initial", " ", "load">>, <<"Incremental", " ", "load">>, <<"Updates">>,
      <<"No-change", " ", "rows">>, <<"Duplicate", " ", "keys">>, <<"Nulls">>,
      <<"Data", " ", "type", " ", "issues">> }

TemplateType2Names ==
    { <<"Initial", " ", "load">>, <<"First", " ", "insert">>,
      <<"Attribute", " ", "change", " ", "->", " ", "close", " ", "old", " ", "+",
        " ", "open", " ", "new">>,
      <<"Multiple", " ", "historical", " ", "changes">>,
      <<"Late-arriving", " ", "data">>,
      <<"Overlapping", " ", "ranges">>,
      <<"Current", " ", "flag", " ", "issues">>,
      <<"Duplicate", " ", "keys">>,
      <<"Invalid", " ", "effective", " ", "dates">> }

\* C6 as stated: each built prompt contains, letter case aside, every
\* scenario category name of its variant in the specification's wording
\* (the parenthesis after "attribute change" read as a gloss).
C6_StatedNamesPresent ==
    pc = "built" =>
        \A n \in (IF scd_type = Type1 THEN StatedType1Names ELSE StatedType2Names) :
            Contains(LowerSeq(prompt), n)

\* C6 as amended: each built prompt contains the scenario lines of its
\* variant in the template's own wording: seven in the Type 1 prompt, nine
\* in the Type 2 prompt, one line each, after a bullet.
C6_TemplateNamesPresent ==
    pc = "built" =>
        \A n \in (IF scd_type = Type1 THEN TemplateType1Names ELSE TemplateType2Names) :
            Contains(prompt, Bullet \o n \o <<NL>>)

C6_Witness ==
    /\ pc = "built"
    /\ scd_type = Type2
    /\ Contains(prompt, <<"Overlapping", " ", "ranges">>)
    /\ ~Contains(LowerSeq(prompt), <<"overlapping", " ", "date", " ", "ranges">>)

\* C8: every click on the button is followed by one invocation of
\* call_databricks_llm before the run leaves line 187, an invocation hands
\* at most one query to the endpoint (one, unless WorkspaceClient() raised
\* first), nothing else issues a query: no step after a failure calls
\* again, and a prompt equal to an earlier one is queried anew.
C8_OneCallPerTrigger ==
    [][ /\ (pc # "call" => calls = triggers) /\ (pc' # "call" => calls' = triggers')
        /\ triggers' # triggers =>
              /\ triggers' = triggers + 1
              /\ calls' = calls
              /\ requests' = requests
        /\ calls' # calls =>
              /\ calls' = calls + 1
              /\ calls' = triggers
              /\ raised_by' # "WorkspaceClient" => Len(requests') = Len(requests) + 1
        /\ requests' # requests =>
              /\ calls' = calls + 1
              /\ Len(requests') = Len(requests) + 1
              /\ SubSeq(requests', 1, Len(requests)) = requests
      ]_vars

C8_Witness ==
    /\ pc = "idle"
    /\ triggers = 2
    /\ calls = 2
    /\ Len(requests) = 2
    /\ requests[1] = requests[2]
    /\ raised_by = "query"

\* C9: every query handed to the endpoint names the endpoint
\* "deepseek-scd-qa" and carries a list of one message, of role "user",
\* whose content is the prompt call_databricks_llm was given.
C9_RequestShape ==
    /\ \A i \in 1..Len(requests) :
          /\ DOMAIN requests[i] = {"name", "inputs"}
          /\ requests[i].name = "deepseek-scd-qa"
          /\ Len(requests[i].inputs) = 1
          /\ requests[i].inputs[1].role = "user"
    /\ (response # NoResponse \/ raised_by = "query") =>
          /\ Len(requests) > 0
          /\ requests[Len(requests)].inputs[1].content = prompt

C9_Witness ==
    /\ pc = "success"
    /\ scd_type = Type2
    /\ Len(requests) = 2
    /\ requests[2] = [name |-> "deepseek-scd-qa",
                      inputs |-> <<[role |-> "user", content |-> prompt]>>]
    /\ requests[1] # requests[2]

\* the template of the selected variant over the field values f
SelectedTemplate(t, f) ==
    IF t = "SCD Type 1"
    THEN build_scd_type1_prompt(f.source_table, f.target_table, f.business_keys, f.attribute_columns, f.additional_rules)
    ELSE build_scd_type2_prompt(f.source_table, f.target_table, f.business_keys, f.attribute_columns, f.eff_from_col, f.eff_to_col, f.current_flag_col, f.version_col, f.additional_rules)

\* C10: call_databricks_llm is invoked only from the position after the
\* prompt was built in a run started by the button; the prompt it is given,
\* and the content of the query, is the Type 1 template over the current
\* field values when "SCD Type 1" is selected and the Type 2 template over
\* them otherwise; under Type 1 the four SCD2 fields cannot be edited, are
\* "" and changing any of them would leave the prompt as it is.
C10_CallCarriesSelectedTemplate ==
    /\ [](scd_type = Type1 =>
            \A k \in Scd2Fields :
                /\ form[k] = <<>>
                /\ \A v \in Typed : ~ENABLED EditField(k, v))
    /\ [][ calls' # calls =>
              /\ pc = "call"
              /\ triggers = calls + 1
              /\ prompt # <<>>
              /\ prompt = SelectedTemplate(scd_type, form)
              /\ requests' # requests =>
                    requests'[Len(requests')].inputs[1].content = SelectedTemplate(scd_type, form)
              /\ scd_type = Type1 =>
                    \A k \in Scd2Fields, v \in Strings :
                        BuildPrompt(scd_type, [form EXCEPT ![k] = v]) = prompt
         ]_vars

C10_Witness ==
    /\ pc = "success"
    /\ scd_type = Type2
    /\ form.eff_to_col = <<"a">>
    /\ Len(requests) = 1
    /\ Contains(requests[1].inputs[1].content, <<"- Effective To: ", "a", NL>>)

====
